---- MODULE Spec2Model ----
(***************************************************************************)
(* Model of one session of extractLeadsRealtime (src/services/scraper.js). *)
(* The function is a single async routine; every action below is the code *)
(* that runs between two awaits of the page driver, a timed delay or a     *)
(* caller callback.  Results of driver calls (launch, goto, evaluate,      *)
(* screenshot, cookies) are inputs drawn when the call returns.            *)
(***************************************************************************)
EXTENDS Integers, Sequences, FiniteSets, TLC

------------------------------------------------------------------------------
(* Bounds of the model *)

\* largest MAX_PAGES value the environment configures
MaxMaxPages == 6
\* largest quantidade a caller asks for
MaxQuantidade == 3
\* largest number of div[jscontroller] cards on one result page
MaxCards == 2
\* bound on the configured CONFIG.maxPages of the sessions followed with a
\* caller that cancels or whose callbacks throw
MaxCancelPages == 3
\* bound on the configured CONFIG.maxPages of the sessions followed to their
\* end under fairness
MaxFairPages == 5

------------------------------------------------------------------------------
(* Program constants *)

\* start = currentPageNum * 10
PageSize == 10
\* paginasVaziasSeguidas >= 5 ends the search
EmptyLimit == 5
\* nome.length < 3 || nome.length > 150 rejects the card
NomeMin == 3
NomeMax == 150

null == "null"

\* prefixes of the noise filter /^(Ver mais|Pesquisar|...)/i, lower-cased
\* and without their diacritics
NoisePrefixes == <<"ver mais", "pesquisar", "filtrar", "mapa", "lista",
                   "anterior", "proxim", "direcoes", "salvar", "escolha">>

\* an element of a phone pattern: a character class repeated min to max
\* times, as many times as the rest of the pattern allows
El(cls, min, max) == [cls |-> cls, min |-> min, max |-> max]

\* lines 360-366: phonePatterns, in the order of the array
PhonePatterns ==
    << \* /\(\d{2}\)\s?\d{4,5}[-\s]?\d{4}/g
       <<El("(", 1, 1), El("d", 2, 2), El(")", 1, 1), El("s", 0, 1),
         El("d", 4, 5), El("-s", 0, 1), El("d", 4, 4)>>,
       \* /\d{2}\s?\d{4,5}[-\s]?\d{4}/g
       <<El("d", 2, 2), El("s", 0, 1), El("d", 4, 5), El("-s", 0, 1),
         El("d", 4, 4)>>,
       \* /\+55\s?\(?\d{2}\)?\s?\d{4,5}[-\s]?\d{4}/g
       <<El("+", 1, 1), El("5", 2, 2), El("s", 0, 1), El("(", 0, 1),
         El("d", 2, 2), El(")", 0, 1), El("s", 0, 1), El("d", 4, 5),
         El("-s", 0, 1), El("d", 4, 4)>>,
       \* /\(\d{2}\)\s?\d{8,9}/g
       <<El("(", 1, 1), El("d", 2, 2), El(")", 1, 1), El("s", 0, 1),
         El("d", 8, 9)>>,
       \* /\d{10,11}/g
       <<El("d", 10, 11)>> >>

\* the character c belongs to the class: \d, \s, [-\s] or a literal
InClass(c, cls) ==
    CASE cls = "d"  -> c \in {"0", "1", "2", "3", "4", "5", "6", "7", "8", "9"}
      [] cls = "s"  -> c = " "
      [] cls = "-s" -> c \in {"-", " "}
      [] OTHER      -> c = cls

\* how many characters of the class follow one another from position p, up
\* to max
RECURSIVE Run(_, _, _, _)
Run(text, p, cls, max) ==
    IF max = 0 \/ p > Len(text) \/ ~InClass(SubSeq(text, p, p), cls) THEN 0
    ELSE 1 + Run(text, p + 1, cls, max - 1)

\* the regular expression engine on elements k.. of a pattern from position
\* p: the position after the match, 0 when there is none; a quantifier
\* takes the longest run first and gives characters back one at a time
RECURSIVE MatchFrom(_, _, _, _)
RECURSIVE TryCount(_, _, _, _, _)
MatchFrom(pat, k, text, p) ==
    IF k > Len(pat) THEN p
    ELSE TryCount(pat, k, text, p, Run(text, p, pat[k].cls, pat[k].max))

TryCount(pat, k, text, p, n) ==
    IF n < pat[k].min THEN 0
    ELSE LET end == MatchFrom(pat, k + 1, text, p + n)
         IN  IF end # 0 THEN end ELSE TryCount(pat, k, text, p, n - 1)

\* text.match(pattern) with the g flag: the matches from position p on,
\* leftmost first, none overlapping another; <<>> stands for null
RECURSIVE MatchesFrom(_, _, _)
MatchesFrom(text, pat, p) ==
    LET starts == {q \in p..Len(text) : MatchFrom(pat, 1, text, q) # 0}
    IN  IF starts = {} THEN <<>>
        ELSE LET q   == CHOOSE a \in starts : \A b \in starts : a <= b
                 end == MatchFrom(pat, 1, text, q)
             IN  <<SubSeq(text, q, end - 1)>> \o MatchesFrom(text, pat, end)

Match(text, pat) == MatchesFrom(text, pat, 1)

\* lines 368-375: the for loop over phonePatterns from pattern k on, left
\* at the first pattern with a match
RECURSIVE TelefoneFrom(_, _)
TelefoneFrom(text, k) ==
    IF k > Len(PhonePatterns) THEN null
    ELSE LET matches == Match(text, PhonePatterns[k])
         IN  IF Len(matches) > 0 THEN matches[1]
             ELSE TelefoneFrom(text, k + 1)

\* let telefone after the loop
Telefone(text) == TelefoneFrom(text, 1)

\* A div[jscontroller] card as the forEach callback handles it: nome is
\* headings[0].textContent.trim(), text the card's textContent after the
\* heading (the modelled names hold no digit, parenthesis or plus sign, so
\* no match begins in them), telefone what the search of lines 359-375
\* leaves in the variable of that name.
Card(nome, text) == [nome |-> nome, text |-> text, telefone |-> Telefone(text)]

\* The cards of the modelled pages.  Three pass the filters, one has a
\* short name, one a noise name, one no phone.
Cards == {Card("Clinica A", "1133334444"),
          Card("Clinica A", "11 3333-4444"),
          Card("Clinica B", "1133334444"),
          Card("Ab",        "1133334444"),
          Card("Mapa",      "1133334444"),
          Card("Clinica B", "4,8 (120)")}

\* the cards of a page, in document order
RECURSIVE SeqsUpTo(_, _)
SeqsUpTo(S, n) ==
    IF n = 0 THEN {<<>>}
    ELSE LET shorter == SeqsUpTo(S, n - 1)
         IN  shorter \cup {Append(s, c) : s \in {t \in shorter : Len(t) = n - 1}, c \in S}

PageCards == SeqsUpTo(Cards, MaxCards)

\* CONFIG.minPageDelay and CONFIG.maxPageDelay, in ms, with no environment
\* override
MinPageDelay == 5000
MaxPageDelay == 10000

\* line 427: randomDelay(pageDelay, pageDelay + 1000)
DelaySpread == 1000

\* the block indicators of a page: the iframe[src*="recaptcha"] element and
\* the four phrases looked up in the lower-cased body text
BlockIndicators == {"iframe", "recaptcha", "captcha", "unusual traffic",
                    "trafego incomum"}

\* what evaluating the block indicators on a fetched page gives: none is
\* present, one of them is, or page.evaluate throws before any indicator
\* could be read (the page then counts as showing none)
Indicators == {"none", "throws"} \cup BlockIndicators

------------------------------------------------------------------------------
VARIABLES
    maxPages,                \* CONFIG.maxPages
    quantidade,              \* argument of extractLeadsRealtime, a positive count
    pc,                      \* position in extractLeadsRealtime
    browser,                 \* "none", "open", "closed"
    cookieFile,              \* the file at CONFIG.cookiesPath as loadCookies found it, "unread" before
    cookiesLoaded,           \* result of loadCookies(page)
    uniqueEstabelecimentos,  \* the Map, as its entries in insertion order
    currentPageNum,
    paginasVaziasSeguidas,
    hasRecaptcha,
    i,                       \* index of the delivery loop
    error,                   \* the error being thrown, "none" if none
    outcome,                 \* "running", "returned", "thrown"
    sessionGotos,            \* page.goto calls for https://www.google.com.br
    gotoLog,                 \* start offsets of the page.goto calls for search pages
    extractLog,              \* start offsets of the pages whose candidates were extracted
    progressLog,             \* arguments of the onProgress calls
    leads,                   \* arguments of the onNewLead calls
    loadCookiesCalls,        \* calls of loadCookies
    saveCookiesCalls,        \* calls of saveCookies
    cookiesWritten,          \* fs.writeFileSync(CONFIG.cookiesPath, ...) was done
    screenshots,             \* page.screenshot calls
    pageDelays,              \* inter-page randomDelay calls
    closeCalls,              \* browser.close calls
    emptyStreak,             \* fetched pages in a row that yielded no candidate
    stagnantStreak,          \* fetched pages in a row that added no new unique entry
    blockedPage,             \* ordinal of the first search page showing a block indicator, 0 if none
    failedFetch,             \* ordinal of the first search page whose page.goto threw, 0 if none
    successfulPages,         \* fetched pages that added a new unique entry to the Map
    screenshotThrew,         \* page.screenshot of the block diagnosis threw
    evaluateThrew,           \* page.evaluate of detectRecaptcha threw on the page of this iteration
    pageDelay,               \* const pageDelay of the iteration, 0 outside the inter-page wait
    waited,                  \* the duration randomDelay gave to setTimeout at line 427, 0 outside the wait
    cancelRequested,         \* the caller has asked for the session to be cancelled
    fetchedAfterCancel,      \* a search page fetch was started after that request
    mStep,                   \* the merge taken alone: "idle", "extract", "merge", "done"
    mCards,                  \* the result cards of the page being merged
    mPage,                   \* estabelecimentosDaPagina extracted from mCards
    mRest,                   \* the candidates the forEach has still to visit
    mStore,                  \* the Map the page is merged into
    mNovos,                  \* novosAdicionados of the merge under way
    mPass                    \* 1 for the merge of the page, 2 for the merge of it again

config  == <<maxPages, quantidade>>
locals  == <<cookiesLoaded, uniqueEstabelecimentos, currentPageNum,
             paginasVaziasSeguidas, hasRecaptcha, i>>
calls   == <<sessionGotos, gotoLog, extractLog, progressLog, leads,
             loadCookiesCalls, saveCookiesCalls, cookiesWritten, screenshots, pageDelays,
             closeCalls>>
history == <<emptyStreak, stagnantStreak, blockedPage, failedFetch,
             successfulPages, screenshotThrew, evaluateThrew>>
wait    == <<pageDelay, waited>>
caller  == <<cancelRequested, fetchedAfterCancel>>

merge   == <<mStep, mCards, mPage, mRest, mStore, mNovos, mPass>>

vars == <<config, pc, browser, cookieFile, locals, error, outcome, calls,
          history, wait, caller, merge>>

------------------------------------------------------------------------------
(* Pure helpers *)

Min(a, b) == IF a < b THEN a ELSE b

\* the digits of a raw phone text, i.e. the text without its formatting
RECURSIVE Digits(_)
Digits(s) ==
    IF Len(s) = 0 THEN ""
    ELSE (IF SubSeq(s, 1, 1) \in {"0", "1", "2", "3", "4", "5", "6", "7", "8", "9"}
            THEN SubSeq(s, 1, 1) ELSE "")
         \o Digits(SubSeq(s, 2, Len(s)))

\* Key built from the name alone
KeyNomeOnly(est) == est.nome

\* Key with the phone reduced to its digits
KeyCanonical(est) == est.nome \o "|" \o Digits(est.telefone)

\* `${nome}|${telefone}`
Key(est) == est.nome \o "|" \o est.telefone

\* The Map uniqueEstabelecimentos is the sequence of its entries
\* [key, value] in insertion order.

\* the keys of the Map
Keys(map) == {map[k].key : k \in 1..Len(map)}

\* Map.prototype.has
MapHas(map, key) == key \in Keys(map)

\* Map.prototype.set: a new key is appended, an existing key keeps its place
\* and takes the new value
MapSet(map, key, value) ==
    IF MapHas(map, key)
      THEN [k \in 1..Len(map) |->
               IF map[k].key = key THEN [key |-> key, value |-> value] ELSE map[k]]
      ELSE Append(map, [key |-> key, value |-> value])

\* Array.from(map.values())
MapValues(map) == [k \in 1..Len(map) |-> map[k].value]

\* String.prototype.toLowerCase on the letters the modelled names use
LowerChar(c) ==
    CASE c = "A" -> "a" [] c = "B" -> "b" [] c = "C" -> "c" [] c = "M" -> "m"
      [] OTHER -> c

RECURSIVE ToLower(_)
ToLower(s) ==
    IF Len(s) = 0 THEN ""
    ELSE LowerChar(SubSeq(s, 1, 1)) \o ToLower(SubSeq(s, 2, Len(s)))

StartsWith(s, p) == Len(s) >= Len(p) /\ SubSeq(s, 1, Len(p)) = p

\* /^(Ver mais|Pesquisar|Filtrar|Mapa|...)/i.test(nome)
IsNoise(nome) ==
    \E k \in 1..Len(NoisePrefixes) :
        StartsWith(ToLower(SubSeq(nome, 1, Min(Len(nome), Len(NoisePrefixes[k])))),
                   NoisePrefixes[k])

\* NomeRejected with the bounds themselves rejected, as an earlier revision
\* had it (nome.length > 3 && nome.length < 150 to accept)
NomeRejectedExclusive(nome) ==
    Len(nome) = 0 \/ Len(nome) <= NomeMin \/ Len(nome) >= NomeMax

\* !nome || nome.length < 3 || nome.length > 150  -> the card is skipped
NomeRejected(nome) ==
    Len(nome) = 0 \/ Len(nome) < NomeMin \/ Len(nome) > NomeMax

\* ExtractCard without the test of the seen set
ExtractCardNoSeen(acc, card) ==
    IF NomeRejected(card.nome) THEN acc
    ELSE IF IsNoise(card.nome) THEN acc
    ELSE IF card.telefone = null THEN acc
    ELSE [results |-> Append(acc.results, [nome |-> card.nome, telefone |-> card.telefone]),
          seen    |-> acc.seen \cup {Key(card)}]

\* the cards.forEach callback of the page.evaluate extraction: results and
\* the seen keys after the card
ExtractCard(acc, card) ==
    IF NomeRejected(card.nome) THEN acc
    ELSE IF IsNoise(card.nome) THEN acc
    ELSE IF card.telefone = null THEN acc
    ELSE IF Key(card) \in acc.seen THEN acc
    ELSE [results |-> Append(acc.results, [nome |-> card.nome, telefone |-> card.telefone]),
          seen    |-> acc.seen \cup {Key(card)}]

RECURSIVE ExtractFrom(_, _)
ExtractFrom(acc, cards) ==
    IF cards = <<>> THEN acc
    ELSE ExtractFrom(ExtractCard(acc, Head(cards)), Tail(cards))

\* estabelecimentosDaPagina
ExtractPage(cards) == ExtractFrom([results |-> <<>>, seen |-> {}], cards).results

\* what the extraction returns on the modelled pages
ExtractedPages == {ExtractPage(cards) : cards \in PageCards}

\* MergeOne without the has(key) test
MergeOneNoHasCheck(acc, est) ==
    [map |-> MapSet(acc.map, Key(est), est), novos |-> acc.novos + 1]

\* MergeOne where a candidate whose key is held takes the place of the held
\* entry, as the newest one
MergeOneLastSeenWins(acc, est) ==
    IF ~MapHas(acc.map, Key(est))
      THEN [map |-> MapSet(acc.map, Key(est), est), novos |-> acc.novos + 1]
      ELSE [map |-> Append(SelectSeq(acc.map, LAMBDA e : e.key # Key(est)),
                           [key |-> Key(est), value |-> est]),
            novos |-> acc.novos]

\* lines 403-408: the forEach callback of the merge, on the Map and the
\* count novosAdicionados so far
MergeOne(acc, est) ==
    IF ~MapHas(acc.map, Key(est))
      THEN [map |-> MapSet(acc.map, Key(est), est), novos |-> acc.novos + 1]
      ELSE acc

RECURSIVE MergeAll(_, _)
MergeAll(acc, ests) ==
    IF ests = <<>> THEN acc
    ELSE MergeAll(MergeOne(acc, Head(ests)), Tail(ests))

\* MergePage into a Map built anew for each page
MergePageFresh(store, ests) == MergeAll([map |-> <<>>, novos |-> 0], ests).map

\* estabelecimentosDaPagina.forEach(est => { if (!has(key)) set(key, est) })
MergePage(store, ests) == MergeAll([map |-> store, novos |-> 0], ests).map

\* novosAdicionados after the forEach
NovosAdicionados(store, ests) == MergeAll([map |-> store, novos |-> 0], ests).novos

\* Math.floor(Math.random() * n) lies in 0..n-1; the least and the greatest
\* value stand for the draw
RandomFloor(n) == {0, n - 1}

\* Math.floor(Math.random() * (max - min + 1)) + min
RandomInt(min, max) == {r + min : r \in RandomFloor(max - min + 1)}

\* line 425: the range pageDelay is drawn from, whatever the number of
\* successful pages and of empty pages in a row
PageDelayRange(successful, vazias) ==
    [min |-> MinPageDelay, max |-> MaxPageDelay]

\* DetectRecaptcha with a throwing evaluate counted as a block
DetectRecaptchaFailsClosed(indicator) ==
    IF indicator = "throws" THEN TRUE
    ELSE \/ indicator = "iframe"
         \/ indicator = "recaptcha"
         \/ indicator = "captcha"
         \/ indicator = "unusual traffic"
         \/ indicator = "trafego incomum"

\* the value returned by the evaluate callback of detectRecaptcha, and the
\* catch that turns a throwing evaluate into false
DetectRecaptcha(indicator) ==
    IF indicator = "throws" THEN FALSE
    ELSE \/ indicator = "iframe"
         \/ indicator = "recaptcha"
         \/ indicator = "captcha"
         \/ indicator = "unusual traffic"
         \/ indicator = "trafego incomum"

\* PagePercent without the division by CONFIG.maxPages
PagePercentUnscaled(n, mp) == 10 + (n * 20)

\* 10 + Math.floor((currentPageNum / CONFIG.maxPages) * 20)
PagePercent(n, mp) == 10 + ((n * 20) \div mp)

\* 40 + Math.floor((i / limit) * 55)
SendPercent(k, limit) == 40 + ((k * 55) \div limit)

Progress(status, percent) == [status |-> status, percent |-> percent]

------------------------------------------------------------------------------
\* the state in which extractLeadsRealtime is entered
SessionStart ==
    /\ pc = "start"
    /\ browser = "none"
    /\ cookieFile = "unread"
    /\ cookiesLoaded = FALSE
    /\ uniqueEstabelecimentos = <<>>
    /\ currentPageNum = 0
    /\ paginasVaziasSeguidas = 0
    /\ hasRecaptcha = FALSE
    /\ i = 0
    /\ error = "none"
    /\ outcome = "running"
    /\ sessionGotos = 0
    /\ gotoLog = <<>>
    /\ extractLog = <<>>
    /\ progressLog = <<>>
    /\ leads = <<>>
    /\ loadCookiesCalls = 0
    /\ saveCookiesCalls = 0
    /\ cookiesWritten = FALSE
    /\ screenshots = 0
    /\ pageDelays = 0
    /\ closeCalls = 0
    /\ emptyStreak = 0
    /\ stagnantStreak = 0
    /\ blockedPage = 0
    /\ failedFetch = 0
    /\ successfulPages = 0
    /\ screenshotThrew = FALSE
    /\ evaluateThrew = FALSE
    /\ pageDelay = 0
    /\ waited = 0
    /\ cancelRequested = FALSE
    /\ fetchedAfterCancel = FALSE

\* no merge is looked at on its own while a session is followed
MergeIdle ==
    /\ mStep = "idle"
    /\ mCards = <<>>
    /\ mPage = <<>>
    /\ mRest = <<>>
    /\ mStore = <<>>
    /\ mNovos = 0
    /\ mPass = 1

Init ==
    /\ maxPages \in 1..MaxMaxPages
    /\ quantidade \in 1..MaxQuantidade
    /\ SessionStart
    /\ MergeIdle

------------------------------------------------------------------------------
(* The session.  browser.close is taken to return normally, and so are    *)
(* the caller's callbacks except under SpecCallbacks; every other driver  *)
(* call may throw.                                                        *)

\* Emit with the callback called twice for one event
EmitTwice(event) == progressLog' = Append(Append(progressLog, event), event)

\* a call of onProgress
Emit(event) == progressLog' = Append(progressLog, event)

\* Throw with the records collected so far delivered before a block error
\* is reported
ThrowDeliversPartial(err) ==
    /\ error' = err
    /\ pc' = IF err = "RECAPTCHA" /\ Len(uniqueEstabelecimentos) > 0
               THEN "send" ELSE "finally"

\* a throw inside the try block: the catch logs and rethrows, the finally
\* block runs next
Throw(err) ==
    /\ error' = err
    /\ pc' = "finally"

\* lines 166-200: first progress event, puppeteer.launch
Start(ok) ==
    /\ pc = "start"
    /\ Emit(Progress("Iniciando navegador...", 5))
    /\ IF ok
         THEN /\ browser' = "open"
              /\ pc' = "setup"
              /\ error' = error
         ELSE /\ browser' = browser
              /\ Throw("LaunchError")
    /\ UNCHANGED <<merge, wait, caller, config, cookieFile, locals, outcome, sessionGotos, gotoLog, extractLog,
                   leads, loadCookiesCalls, saveCookiesCalls, cookiesWritten, screenshots,
                   pageDelays, closeCalls, history>>

\* what loadCookies can find at CONFIG.cookiesPath: no file; a file that
\* readFileSync or JSON.parse fails on; cookies that page.setCookie throws
\* on; cookies that are applied
CookieFiles == {"missing", "corrupt", "rejected", "valid"}

\* LoadCookies without the try/catch
LoadCookiesNoCatch(file) ==
    [result |-> file = "valid", throws |-> file \in {"corrupt", "rejected"}]

\* lines 47-59: loadCookies returns true once the cookies are applied; its
\* catch turns every failure into the return of false
LoadCookies(file) ==
    [result |-> file = "valid", throws |-> FALSE]

\* lines 202-280: newPage, loadCookies, identity set-up, the locals of the
\* search, second progress event, page.goto('https://www.google.com.br');
\* ok: every driver call of the set-up returns; when one throws it is
\* newPage, before loadCookies is reached, or one of the calls after it
Setup(ok, file) ==
    /\ pc = "setup"
    /\ IF ok /\ ~LoadCookies(file).throws
         THEN /\ cookieFile' = file
              /\ loadCookiesCalls' = loadCookiesCalls + 1
              /\ cookiesLoaded' = LoadCookies(file).result
              /\ uniqueEstabelecimentos' = <<>>
              /\ currentPageNum' = 0
              /\ paginasVaziasSeguidas' = 0
              /\ Emit(Progress("Configurado! Iniciando busca...", 10))
              /\ sessionGotos' = sessionGotos + 1
              /\ pc' = "session"
              /\ error' = error
         ELSE /\ Throw(IF ok THEN "CookieError" ELSE "DriverError")
              /\ cookieFile' = IF ok THEN file ELSE cookieFile
              /\ \E reached \in (IF ok THEN {TRUE} ELSE BOOLEAN) :
                    loadCookiesCalls' = IF reached THEN loadCookiesCalls + 1
                                        ELSE loadCookiesCalls
              /\ UNCHANGED <<cookiesLoaded, uniqueEstabelecimentos, currentPageNum,
                             paginasVaziasSeguidas, progressLog, sessionGotos>>
    /\ UNCHANGED <<merge, wait, caller, config, browser, hasRecaptcha, i, outcome, gotoLog,
                   extractLog, leads, saveCookiesCalls, cookiesWritten,
                   screenshots, pageDelays, closeCalls, history>>

\* lines 277-284: the session-establishing navigation returns or throws,
\* then randomDelay, humanMouseMovement, randomDelay
SessionEstablished(ok) ==
    /\ pc = "session"
    /\ IF ok
         THEN /\ pc' = "while"
              /\ error' = error
         ELSE Throw("FetchError")
    /\ UNCHANGED <<merge, wait, caller, config, cookieFile, locals, browser, outcome, calls, history>>

\* line 162: extractLeadsRealtime(nicho, regiao, quantidade, onNewLead,
\* onProgress) takes nothing a cancellation could reach it through; the
\* caller asks for cancellation at any moment of a running session
CallerCancels ==
    /\ outcome = "running"
    /\ pc # "done"
    /\ ~cancelRequested
    /\ cancelRequested' = TRUE
    /\ UNCHANGED <<merge, wait, fetchedAfterCancel, config, cookieFile, locals,
                   pc, browser, error, outcome, calls, history>>

\* WhileCond with a cancellation request ending the loop
WhileCondCancellable ==
    /\ ~cancelRequested
    /\ Len(uniqueEstabelecimentos) < quantidade
    /\ currentPageNum < maxPages

\* WhileCond with the page bound off by one
WhileCondOffByOne ==
    Len(uniqueEstabelecimentos) < quantidade /\ currentPageNum <= maxPages

\* line 286: the while condition
WhileCond ==
    Len(uniqueEstabelecimentos) < quantidade /\ currentPageNum < maxPages

\* WhileTest with the randomDelay of line 427 not awaited: the loop goes on
\* while the inter-page wait is still pending
WhileTestDelayNotAwaited ==
    /\ pc \in {"while", "pageDelay"}
    /\ IF WhileCond
         THEN /\ Emit(Progress("Buscando pagina", PagePercent(currentPageNum, maxPages)))
              /\ gotoLog' = Append(gotoLog, currentPageNum * PageSize)
              /\ fetchedAfterCancel' = cancelRequested
              /\ pc' = "goto"
         ELSE /\ pc' = "save"
              /\ UNCHANGED <<progressLog, gotoLog, fetchedAfterCancel>>
    /\ cancelRequested' = cancelRequested
    /\ UNCHANGED <<merge, wait, config, cookieFile, locals, browser, error,
                   outcome, sessionGotos, extractLog, leads, loadCookiesCalls, saveCookiesCalls,
                   cookiesWritten, screenshots, pageDelays, closeCalls, history>>

\* lines 286-300: the while test; when it passes, the page's progress event
\* and page.goto(url) with start = currentPageNum * 10
WhileTest ==
    /\ pc = "while"
    /\ IF WhileCond
         THEN /\ Emit(Progress("Buscando pagina", PagePercent(currentPageNum, maxPages)))
              /\ gotoLog' = Append(gotoLog, currentPageNum * PageSize)
              /\ fetchedAfterCancel' = cancelRequested
              /\ pc' = "goto"
         ELSE /\ pc' = "save"
              /\ UNCHANGED <<progressLog, gotoLog, fetchedAfterCancel>>
    /\ cancelRequested' = cancelRequested
    /\ UNCHANGED <<merge, wait, config, cookieFile, locals, browser, error, outcome, sessionGotos,
                   extractLog, leads, loadCookiesCalls, saveCookiesCalls, cookiesWritten,
                   screenshots, pageDelays, closeCalls, history>>

\* GotoReturns with a failed navigation retried instead of propagated
GotoRetries(ok) ==
    /\ pc = "goto"
    /\ pc' = IF ok THEN "detect" ELSE "while"
    /\ failedFetch' = IF ~ok /\ failedFetch = 0 THEN Len(gotoLog) ELSE failedFetch
    /\ UNCHANGED <<merge, wait, caller, config, cookieFile, locals, browser, error, outcome, calls, emptyStreak,
                   stagnantStreak, blockedPage, successfulPages, screenshotThrew, evaluateThrew>>

\* lines 297-300: page.goto of the search page returns or throws
GotoReturns(ok) ==
    /\ pc = "goto"
    /\ IF ok
         THEN /\ pc' = "detect"
              /\ error' = error
         ELSE Throw("FetchError")
    /\ failedFetch' = IF ~ok /\ failedFetch = 0 THEN Len(gotoLog) ELSE failedFetch
    /\ UNCHANGED <<merge, wait, caller, config, cookieFile, locals, browser, outcome, calls, emptyStreak,
                   stagnantStreak, blockedPage, successfulPages, screenshotThrew, evaluateThrew>>

\* Detect with the check made on the first search page only
DetectFirstPageOnly(indicator) ==
    /\ pc = "detect"
    /\ evaluateThrew' = (indicator = "throws")
    /\ hasRecaptcha' = (currentPageNum = 0 /\ DetectRecaptcha(indicator))
    /\ IF hasRecaptcha'
         THEN /\ screenshots' = screenshots + 1
              /\ pc' = "screenshot"
         ELSE /\ screenshots' = screenshots
              /\ pc' = "human"
    /\ blockedPage' = IF blockedPage = 0 /\ indicator \in BlockIndicators
                        THEN Len(gotoLog) ELSE blockedPage
    /\ UNCHANGED <<merge, wait, caller, config, cookieFile, browser, cookiesLoaded, uniqueEstabelecimentos,
                   currentPageNum, paginasVaziasSeguidas, i, error, outcome,
                   sessionGotos, gotoLog, extractLog, progressLog, leads,
                   loadCookiesCalls, saveCookiesCalls, cookiesWritten, pageDelays, closeCalls,
                   emptyStreak, stagnantStreak, failedFetch, successfulPages, screenshotThrew>>

\* lines 303-310: detectRecaptcha(page); on a block, page.screenshot
Detect(indicator) ==
    /\ pc = "detect"
    /\ evaluateThrew' = (indicator = "throws")
    /\ hasRecaptcha' = DetectRecaptcha(indicator)
    /\ IF hasRecaptcha'
         THEN /\ screenshots' = screenshots + 1
              /\ pc' = "screenshot"
         ELSE /\ screenshots' = screenshots
              /\ pc' = "human"
    /\ blockedPage' = IF blockedPage = 0 /\ indicator \in BlockIndicators
                        THEN Len(gotoLog) ELSE blockedPage
    /\ UNCHANGED <<merge, wait, caller, config, cookieFile, browser, cookiesLoaded, uniqueEstabelecimentos,
                   currentPageNum, paginasVaziasSeguidas, i, error, outcome,
                   sessionGotos, gotoLog, extractLog, progressLog, leads,
                   loadCookiesCalls, saveCookiesCalls, cookiesWritten, pageDelays, closeCalls,
                   emptyStreak, stagnantStreak, failedFetch, successfulPages, screenshotThrew>>

\* Screenshot with the throw forgotten: the iteration goes on after a block
ScreenshotContinues(ok) ==
    /\ pc = "screenshot"
    /\ pc' = "human"
    /\ UNCHANGED <<merge, wait, caller, config, cookieFile, locals, browser, error, outcome, calls, history>>

\* Screenshot without the try/catch around page.screenshot
ScreenshotNoCatch(ok) ==
    /\ pc = "screenshot"
    /\ Throw(IF ok THEN "RECAPTCHA" ELSE "ScreenshotError")
    /\ screenshotThrew' = ~ok
    /\ UNCHANGED <<merge, wait, caller, config, cookieFile, locals, browser, outcome, calls,
                   emptyStreak, stagnantStreak, blockedPage, failedFetch,
                   successfulPages, evaluateThrew>>

\* lines 309-319: the screenshot returns or throws (swallowed), then the
\* RECAPTCHA error is thrown
Screenshot(ok) ==
    /\ pc = "screenshot"
    /\ Throw("RECAPTCHA")
    /\ screenshotThrew' = ~ok
    /\ UNCHANGED <<merge, wait, caller, config, cookieFile, locals, browser, outcome, calls,
                   emptyStreak, stagnantStreak, blockedPage, failedFetch,
                   successfulPages, evaluateThrew>>

\* lines 323-331: delays, mouse movement, scroll, clicks (errors swallowed)
Human ==
    /\ pc = "human"
    /\ pc' = "extract"
    /\ UNCHANGED <<merge, wait, caller, config, cookieFile, locals, browser, error, outcome, calls, history>>

\* EmptyCounter without the reset of line 399
EmptyCounterNoReset(vazias, ests) == IF Len(ests) = 0 THEN vazias + 1 ELSE vazias

\* lines 392-399: the empty-page counter after the extraction
EmptyCounter(vazias, ests) == IF Len(ests) = 0 THEN vazias + 1 ELSE 0

\* FiveEmpty with the comparison off by one
FiveEmptyOffByOne(ests, vazias) == Len(ests) = 0 /\ vazias > EmptyLimit

\* lines 392-397: the break on 5 empty pages in a row
FiveEmpty(ests, vazias) == Len(ests) = 0 /\ vazias >= EmptyLimit

\* lines 417-420: the break on the target
TargetBreak(store) == Len(store) >= quantidade

\* Breaks with a stagnation exit: a third page in a row adding no new
\* unique entry leaves the loop
BreaksOnStagnation(ests, vazias, store) ==
    \/ FiveEmpty(ests, vazias)
    \/ TargetBreak(store)
    \/ Len(store) = Len(uniqueEstabelecimentos) /\ stagnantStreak + 1 >= 3

\* lines 392-420: the iteration leaves the loop by a break
Breaks(ests, vazias, store) == FiveEmpty(ests, vazias) \/ TargetBreak(store)

\* NextPageNum with currentPageNum++ inside the branch of a non-empty page
NextPageNumSkipsEmpty(ests, vazias, num) ==
    IF Len(ests) = 0 THEN num ELSE num + 1

\* NextPageNum with currentPageNum++ made for empty pages only: a page that
\* has candidates is fetched again
NextPageNumOnlyOnEmpty(ests, vazias, num) ==
    IF Len(ests) = 0 /\ ~FiveEmpty(ests, vazias) THEN num + 1 ELSE num

\* line 415: currentPageNum++, not reached when the break of line 396 is
\* taken
NextPageNum(ests, vazias, num) ==
    IF FiveEmpty(ests, vazias) THEN num ELSE num + 1

\* lines 334-427: the extraction returns the page's candidates, then the
\* counters, the merge, the breaks and the inter-page delay
ExtractAndMerge(ests) ==
    /\ pc = "extract"
    /\ LET vazias == EmptyCounter(paginasVaziasSeguidas, ests)
           store  == IF Len(ests) = 0 THEN uniqueEstabelecimentos
                     ELSE MergePage(uniqueEstabelecimentos, ests)
       IN  /\ paginasVaziasSeguidas' = vazias
           /\ uniqueEstabelecimentos' = store
           /\ currentPageNum' = NextPageNum(ests, vazias, currentPageNum)
           /\ IF Breaks(ests, vazias, store)
                THEN /\ pc' = "save"
                     /\ pageDelays' = pageDelays
                     /\ UNCHANGED wait
                ELSE /\ pc' = "pageDelay"
                     /\ pageDelays' = pageDelays + 1
                     /\ \E d \in RandomInt(PageDelayRange(successfulPages', vazias).min,
                                           PageDelayRange(successfulPages', vazias).max) :
                          /\ pageDelay' = d
                          /\ waited' \in RandomInt(d, d + DelaySpread)
           /\ extractLog' = Append(extractLog, currentPageNum * PageSize)
           /\ emptyStreak' = IF Len(ests) = 0 THEN emptyStreak + 1 ELSE 0
           /\ stagnantStreak' = IF Len(store) = Len(uniqueEstabelecimentos)
                                  THEN stagnantStreak + 1 ELSE 0
           /\ successfulPages' = IF Len(store) > Len(uniqueEstabelecimentos)
                                   THEN successfulPages + 1 ELSE successfulPages
    /\ UNCHANGED <<merge, caller, config, cookieFile, browser, cookiesLoaded, hasRecaptcha, i, error,
                   outcome, sessionGotos, gotoLog, progressLog, leads,
                   loadCookiesCalls, saveCookiesCalls, cookiesWritten, screenshots, closeCalls,
                   blockedPage, failedFetch, screenshotThrew, evaluateThrew>>

\* line 334: the extraction's page.evaluate throws
ExtractThrows ==
    /\ pc = "extract"
    /\ Throw("EvaluateError")
    /\ UNCHANGED <<merge, wait, caller, config, cookieFile, locals, browser, outcome, calls, history>>

\* PageDelay with the cookies saved after every page instead of once after
\* the loop
PageDelaySavesCookies ==
    /\ pc = "pageDelay"
    /\ evaluateThrew' = FALSE
    /\ pc' = "while"
    /\ pageDelay' = 0
    /\ waited' = 0
    /\ saveCookiesCalls' = saveCookiesCalls + 1
    /\ UNCHANGED <<merge, caller, config, cookieFile, locals, browser, error, outcome,
                   sessionGotos, gotoLog, extractLog, progressLog, leads,
                   loadCookiesCalls, cookiesWritten, screenshots, pageDelays,
                   closeCalls, emptyStreak, stagnantStreak, blockedPage,
                   failedFetch, successfulPages, screenshotThrew>>

\* line 427: the inter-page randomDelay elapses
PageDelay ==
    /\ pc = "pageDelay"
    /\ evaluateThrew' = FALSE
    /\ pc' = "while"
    /\ pageDelay' = 0
    /\ waited' = 0
    /\ UNCHANGED <<merge, caller, config, cookieFile, locals, browser, error, outcome, calls, emptyStreak, stagnantStreak, blockedPage,
                   failedFetch, successfulPages, screenshotThrew>>

\* NoResults with the check forgotten
NoResultsNever == FALSE

\* NoResults also raised when the page limit ended the loop short of the
\* requested count
NoResultsOrPageLimit ==
    \/ Len(uniqueEstabelecimentos) = 0
    \/ (currentPageNum >= maxPages /\ Len(uniqueEstabelecimentos) < quantidade)

\* line 436: unique.length === 0
NoResults == Len(uniqueEstabelecimentos) = 0

\* Shortfall with <= in place of <
ShortfallOrEqual == Len(uniqueEstabelecimentos) <= quantidade

\* line 440: unique.length < quantidade
Shortfall == Len(uniqueEstabelecimentos) < quantidade

\* SaveCookies without the try/catch of saveCookies: a failure to read or
\* write the cookies is thrown into the session
SaveCookiesNoCatch(ok) ==
    /\ pc = "save"
    /\ evaluateThrew' = FALSE
    /\ saveCookiesCalls' = saveCookiesCalls + 1
    /\ cookiesWritten' = (cookiesWritten \/ ok)
    /\ IF ~ok
         THEN /\ Throw("CookieWriteError")
              /\ UNCHANGED <<progressLog, i>>
         ELSE IF NoResults
         THEN /\ Throw("NoResults")
              /\ UNCHANGED <<progressLog, i>>
         ELSE IF Shortfall
         THEN /\ Emit(Progress("Encontrados", 35))
              /\ pc' = "notice"
              /\ UNCHANGED <<error, i>>
         ELSE /\ Emit(Progress("Enviando contatos...", 40))
              /\ i' = 0
              /\ pc' = "send"
              /\ error' = error
    /\ UNCHANGED <<merge, wait, caller, config, cookieFile, browser, cookiesLoaded, uniqueEstabelecimentos,
                   currentPageNum, paginasVaziasSeguidas, hasRecaptcha, outcome,
                   sessionGotos, gotoLog, extractLog, leads, loadCookiesCalls,
                   screenshots, pageDelays, closeCalls, emptyStreak, stagnantStreak, blockedPage,
                   failedFetch, successfulPages, screenshotThrew>>

\* lines 431-449: saveCookies (its failure is swallowed), the no-results
\* error, the shortfall notice
SaveCookies(ok) ==
    /\ pc = "save"
    /\ evaluateThrew' = FALSE
    /\ saveCookiesCalls' = saveCookiesCalls + 1
    /\ cookiesWritten' = (cookiesWritten \/ ok)
    /\ IF NoResults
         THEN /\ Throw("NoResults")
              /\ UNCHANGED <<progressLog, i>>
         ELSE IF Shortfall
         THEN /\ Emit(Progress("Encontrados", 35))
              /\ pc' = "notice"
              /\ UNCHANGED <<error, i>>
         ELSE /\ Emit(Progress("Enviando contatos...", 40))
              /\ i' = 0
              /\ pc' = "send"
              /\ error' = error
    /\ UNCHANGED <<merge, wait, caller, config, cookieFile, browser, cookiesLoaded, uniqueEstabelecimentos,
                   currentPageNum, paginasVaziasSeguidas, hasRecaptcha, outcome,
                   sessionGotos, gotoLog, extractLog, leads, loadCookiesCalls,
                   screenshots, pageDelays, closeCalls, emptyStreak, stagnantStreak, blockedPage,
                   failedFetch, successfulPages, screenshotThrew>>

\* lines 446-449: the pause after the shortfall notice elapses
Notice ==
    /\ pc = "notice"
    /\ Emit(Progress("Enviando contatos...", 40))
    /\ i' = 0
    /\ pc' = "send"
    /\ UNCHANGED <<merge, wait, caller, config, cookieFile, browser, cookiesLoaded, uniqueEstabelecimentos,
                   currentPageNum, paginasVaziasSeguidas, hasRecaptcha, error,
                   outcome, sessionGotos, gotoLog, extractLog, leads,
                   loadCookiesCalls, saveCookiesCalls, cookiesWritten, screenshots, pageDelays,
                   closeCalls, history>>

\* Limit without the Math.min: every record of the store is delivered
LimitWholeStore == Len(uniqueEstabelecimentos)

\* line 451: const limit = Math.min(unique.length, quantidade)
Limit == Min(Len(uniqueEstabelecimentos), quantidade)

\* line 433: const unique = Array.from(uniqueEstabelecimentos.values())
Unique == MapValues(uniqueEstabelecimentos)

\* Lead with the loop variable itself as the index
LeadZeroBased(est, k) ==
    [nome |-> est.nome, telefone |-> est.telefone, index |-> k]

\* lines 462-467: the argument of onNewLead in turn k of the delivery loop
\* (endereco is the same fixed text in every call and is left out)
Lead(est, k) ==
    [nome |-> est.nome, telefone |-> est.telefone, index |-> k + 1]

\* lines 453-472: one turn of the delivery loop, or its end and the final
\* progress event
Send ==
    /\ pc = "send"
    /\ IF i < Limit
         THEN /\ Emit(Progress("Enviando", SendPercent(i, Limit)))
              /\ leads' = Append(leads, Lead(Unique[i + 1], i))
              /\ i' = i + 1
              /\ pc' = pc
         ELSE /\ Emit(Progress("Concluido!", 100))
              /\ pc' = "finally"
              /\ UNCHANGED <<leads, i>>
    /\ UNCHANGED <<merge, wait, caller, config, cookieFile, browser, cookiesLoaded, uniqueEstabelecimentos,
                   currentPageNum, paginasVaziasSeguidas, hasRecaptcha, error,
                   outcome, sessionGotos, gotoLog, extractLog,
                   loadCookiesCalls, saveCookiesCalls, cookiesWritten, screenshots, pageDelays,
                   closeCalls, history>>

\* Finally with browser.close at the end of the try block instead of the
\* finally block: the browser is closed only when nothing was thrown
FinallyClosesOnSuccessOnly ==
    /\ pc = "finally"
    /\ IF browser = "open" /\ error = "none"
         THEN /\ browser' = "closed"
              /\ closeCalls' = closeCalls + 1
         ELSE UNCHANGED <<browser, closeCalls>>
    /\ outcome' = IF error = "none" THEN "returned" ELSE "thrown"
    /\ pc' = "done"
    /\ UNCHANGED <<merge, wait, caller, config, cookieFile, locals, error, sessionGotos, gotoLog, extractLog,
                   progressLog, leads, loadCookiesCalls, saveCookiesCalls, cookiesWritten,
                   screenshots, pageDelays, history>>

\* lines 475-484: rethrow, and the finally block closing the browser
Finally ==
    /\ pc = "finally"
    /\ IF browser = "open"
         THEN /\ browser' = "closed"
              /\ closeCalls' = closeCalls + 1
         ELSE UNCHANGED <<browser, closeCalls>>
    /\ outcome' = IF error = "none" THEN "returned" ELSE "thrown"
    /\ pc' = "done"
    /\ UNCHANGED <<merge, wait, caller, config, cookieFile, locals, error, sessionGotos, gotoLog, extractLog,
                   progressLog, leads, loadCookiesCalls, saveCookiesCalls, cookiesWritten,
                   screenshots, pageDelays, history>>

Next ==
    \/ \E ok \in BOOLEAN : Start(ok)
    \/ \E ok \in BOOLEAN, file \in CookieFiles : Setup(ok, file)
    \/ \E ok \in BOOLEAN : SessionEstablished(ok)
    \/ WhileTest
    \/ \E ok \in BOOLEAN : GotoReturns(ok)
    \/ \E indicator \in Indicators : Detect(indicator)
    \/ \E ok \in BOOLEAN : Screenshot(ok)
    \/ Human
    \/ \E ests \in ExtractedPages : ExtractAndMerge(ests)
    \/ ExtractThrows
    \/ PageDelay
    \/ \E ok \in BOOLEAN : SaveCookies(ok)
    \/ Notice
    \/ Send
    \/ Finally

Spec == Init /\ [][Next]_vars

\* the session when every call of the page driver and every timed delay
\* eventually returns or throws: a step that can be taken is taken
InitFair == Init /\ maxPages <= MaxFairPages

SpecFair == InitFair /\ [][Next]_vars /\ WF_vars(Next)

\* the session with a caller that may ask for its cancellation
NextCancel == Next \/ CallerCancels

\* the sessions followed with a caller that cancels or whose callbacks throw
InitCancel == Init /\ maxPages <= MaxCancelPages

SpecCancel == InitCancel /\ [][NextCancel]_vars

\* lines 166, 273, 291, 441, 449, 456, 461, 472: onProgress or onNewLead
\* throws.  The call is made inside the try block, after the code that
\* precedes it in its step, and its exception goes through the catch of
\* line 475 to the finally block like any other.
CallbackThrows ==
    /\ Throw("CallbackError")
    /\ \/ /\ pc = "start"
          /\ Emit(Progress("Iniciando navegador...", 5))
          /\ UNCHANGED <<cookieFile, cookiesLoaded, loadCookiesCalls,
                         saveCookiesCalls, cookiesWritten, evaluateThrew, leads>>
       \/ /\ pc = "setup"
          /\ \E file \in CookieFiles :
                /\ cookieFile' = file
                /\ cookiesLoaded' = LoadCookies(file).result
          /\ loadCookiesCalls' = loadCookiesCalls + 1
          /\ Emit(Progress("Configurado! Iniciando busca...", 10))
          /\ UNCHANGED <<saveCookiesCalls, cookiesWritten, evaluateThrew, leads>>
       \/ /\ pc = "while"
          /\ WhileCond
          /\ Emit(Progress("Buscando pagina", PagePercent(currentPageNum, maxPages)))
          /\ UNCHANGED <<cookieFile, cookiesLoaded, loadCookiesCalls,
                         saveCookiesCalls, cookiesWritten, evaluateThrew, leads>>
       \/ /\ pc = "save"
          /\ ~NoResults
          /\ saveCookiesCalls' = saveCookiesCalls + 1
          /\ \E ok \in BOOLEAN : cookiesWritten' = (cookiesWritten \/ ok)
          /\ evaluateThrew' = FALSE
          /\ Emit(IF Shortfall THEN Progress("Encontrados", 35)
                  ELSE Progress("Enviando contatos...", 40))
          /\ UNCHANGED <<cookieFile, cookiesLoaded, loadCookiesCalls, leads>>
       \/ /\ pc = "notice"
          /\ Emit(Progress("Enviando contatos...", 40))
          /\ UNCHANGED <<cookieFile, cookiesLoaded, loadCookiesCalls,
                         saveCookiesCalls, cookiesWritten, evaluateThrew, leads>>
       \/ /\ pc = "send"
          /\ IF i < Limit
               THEN /\ Emit(Progress("Enviando", SendPercent(i, Limit)))
                    /\ \/ leads' = leads
                       \/ leads' = Append(leads, Lead(Unique[i + 1], i))
               ELSE /\ Emit(Progress("Concluido!", 100))
                    /\ leads' = leads
          /\ UNCHANGED <<cookieFile, cookiesLoaded, loadCookiesCalls,
                         saveCookiesCalls, cookiesWritten, evaluateThrew>>
    /\ UNCHANGED <<merge, wait, caller, config, browser, uniqueEstabelecimentos,
                   currentPageNum, paginasVaziasSeguidas, hasRecaptcha, i,
                   outcome, sessionGotos, gotoLog, extractLog, screenshots,
                   pageDelays, closeCalls, emptyStreak, stagnantStreak,
                   blockedPage, failedFetch, successfulPages, screenshotThrew>>

\* the session with a caller whose callbacks may throw
NextCallbacks == Next \/ CallbackThrows

SpecCallbacks == InitCancel /\ [][NextCallbacks]_vars

------------------------------------------------------------------------------
(* The extraction and the merge of one page taken alone (lines 334-409):   *)
(* a page of cards is extracted, its candidates are merged one by one into *)
(* a Map that earlier pages have filled, and are then merged once more.    *)

\* a name of 150 characters
Nome150 ==
    LET ten   == "nnnnnnnnnn"
        fifty == ten \o ten \o ten \o ten \o ten
    IN  fifty \o fifty \o fifty

\* cards whose names sit on the bounds of line 352: 3 characters, 150
\* characters, 151 characters
EdgeCards == {Card("Abc",         "1133334444"),
              Card(Nome150,       "1133334444"),
              Card(Nome150 \o "n", "1133334444")}

\* cards whose text holds a number in the parenthesized form, one with the
\* country code, and a bare run of digits ahead of a parenthesized number
\* followed by a second one
PhoneCards == {Card("Clinica A", "(11) 3333-4444"),
               Card("Clinica A", "+55 11 3333-4444"),
               Card("Clinica B", "1155556666 (11) 3333-4444 (11) 5555-6666")}

\* the pages merged on their own
MergePageCards == SeqsUpTo(Cards \cup EdgeCards \cup PhoneCards, MaxCards)

\* the Maps a session holds after its first non-empty page
MergeStores == {MergePage(<<>>, ests) : ests \in ExtractedPages}

InitMerge ==
    /\ maxPages = 1
    /\ quantidade = 1
    /\ SessionStart
    /\ mStep = "extract"
    /\ mCards \in MergePageCards
    /\ mPage = <<>>
    /\ mRest = <<>>
    /\ mStore \in MergeStores
    /\ mNovos = 0
    /\ mPass = 1

session == <<config, pc, browser, cookieFile, locals, error, outcome, calls,
             history, wait, caller>>

\* lines 334-388 and 402: the extraction returns, novosAdicionados = 0
MergeExtract ==
    /\ mStep = "extract"
    /\ mPage' = ExtractPage(mCards)
    /\ mRest' = mPage'
    /\ mNovos' = 0
    /\ mStep' = "merge"
    /\ UNCHANGED <<session, mCards, mStore, mPass>>

\* lines 403-408: the forEach callback on the next candidate
MergeCandidate ==
    /\ mStep = "merge"
    /\ mRest # <<>>
    /\ LET acc == MergeOne([map |-> mStore, novos |-> mNovos], Head(mRest))
       IN  /\ mStore' = acc.map
           /\ mNovos' = acc.novos
    /\ mRest' = Tail(mRest)
    /\ UNCHANGED <<session, mStep, mCards, mPage, mPass>>

\* the same candidate list is merged a second time
MergeAgain ==
    /\ mStep = "merge"
    /\ mRest = <<>>
    /\ mPass = 1
    /\ mPass' = 2
    /\ mRest' = mPage
    /\ mNovos' = 0
    /\ UNCHANGED <<session, mStep, mCards, mPage, mStore>>

\* the second merge has visited every candidate
MergeEnd ==
    /\ mStep = "merge"
    /\ mRest = <<>>
    /\ mPass = 2
    /\ mStep' = "done"
    /\ UNCHANGED <<session, mCards, mPage, mRest, mStore, mNovos, mPass>>

NextMerge == MergeExtract \/ MergeCandidate \/ MergeAgain \/ MergeEnd

SpecMerge == InitMerge /\ [][NextMerge]_vars

TypeOK ==
    /\ pc \in {"start", "setup", "session", "while", "goto", "detect",
               "screenshot", "human", "extract", "pageDelay", "save",
               "notice", "send", "finally", "done"}
    /\ outcome \in {"running", "returned", "thrown"}
    /\ cookieFile \in CookieFiles \cup {"unread"}
    /\ currentPageNum \in 0..maxPages
    /\ paginasVaziasSeguidas \in 0..EmptyLimit

------------------------------------------------------------------------------
(* Properties *)

\* the pagination loop was left by its condition or by a break
LoopEnded == pc = "save" \/ saveCookiesCalls > 0

\* the store has reached the requested count
TargetReached == Len(uniqueEstabelecimentos) >= quantidade

\* number of shortfall notices sent through onProgress
ShortfallNotices ==
    Cardinality({k \in 1..Len(progressLog) : progressLog[k].status = "Encontrados"})

\* no start offset was fetched twice
OffsetsDistinct ==
    \A a, b \in 1..Len(gotoLog) : a # b => gotoLog[a] # gotoLog[b]

\* C1: once detectRecaptcha has reported a block, no step of the session
\* issues another page.goto, and saveCookies is not and has not been
\* performed.
C1_FatalAbortExclusivity ==
    [][hasRecaptcha =>
          /\ gotoLog' = gotoLog
          /\ sessionGotos' = sessionGotos
          /\ saveCookiesCalls = 0 /\ saveCookiesCalls' = 0
          /\ ~cookiesWritten /\ ~cookiesWritten']_vars

C1_Witness ==
    /\ pc = "done"
    /\ hasRecaptcha
    /\ Len(gotoLog) >= 2
    /\ Len(uniqueEstabelecimentos) > 0

\* C2: the number of search-page fetches issued in a session never exceeds
\* CONFIG.maxPages.
C2_TerminationBound == Len(gotoLog) <= maxPages

C2_Witness ==
    /\ pc = "done"
    /\ maxPages >= 3
    /\ Len(gotoLog) = maxPages
    /\ outcome = "returned"

\* C3: when the k-th search page is the first one showing a block
\* indicator, the block is reported on that page, exactly k pages have been
\* fetched and only the k-1 pages before it were extracted and merged; the
\* session ends thrown with the RECAPTCHA error.
C3_CheckOnEveryPage ==
    blockedPage # 0 =>
        /\ hasRecaptcha
        /\ Len(gotoLog) = blockedPage
        /\ Len(extractLog) = blockedPage - 1
        /\ error \in {"none", "RECAPTCHA"}
        /\ pc = "done" => (outcome = "thrown" /\ error = "RECAPTCHA")

C3_Witness ==
    /\ pc = "done"
    /\ blockedPage = 3
    /\ Len(gotoLog) = 3
    /\ ~cookiesWritten

\* C4: once the store holds targetCount records, no further page is
\* fetched, the session does not fail, no shortfall notice is sent, and the
\* finished session has delivered exactly targetCount records.
C4_TargetReached ==
    TargetReached =>
        /\ Len(gotoLog) = Len(extractLog)
        /\ error = "none"
        /\ ShortfallNotices = 0
        /\ Len(leads) <= quantidade
        /\ pc = "done" => (outcome = "returned" /\ Len(leads) = quantidade)

C4_Witness ==
    /\ pc = "done"
    /\ Len(uniqueEstabelecimentos) > quantidade
    /\ Len(gotoLog) = 2
    /\ Len(leads) = quantidade

\* C5: when saveCookies has written the identity, the session has not
\* failed and it ends by returning normally.
C5_SavedOnlyOnSuccess ==
    cookiesWritten =>
        /\ error = "none"
        /\ pc = "done" => outcome = "returned"

\* C6 as stated: after 3 pages in a row that added no new unique entry to
\* a non-empty store, no further page is fetched and the session ends as a
\* success with shortfall.
C6_StagnationExit ==
    (stagnantStreak >= 3 /\ Len(uniqueEstabelecimentos) > 0) =>
        /\ Len(gotoLog) = Len(extractLog)
        /\ pc = "done" => (outcome = "returned" /\ ShortfallNotices = 1)

\* C6 amended: the loop has no stagnation exit; whenever it has ended, the
\* store has reached targetCount, the page index has reached maxPages, or
\* the last 5 fetched pages yielded no candidate.
C6_NoStagnationExit ==
    LoopEnded =>
        \/ TargetReached
        \/ currentPageNum >= maxPages
        \/ emptyStreak >= 5

C6_Witness ==
    /\ pc = "goto"
    /\ stagnantStreak >= 3
    /\ emptyStreak = 0
    /\ Len(uniqueEstabelecimentos) > 0

\* C7: 5 pages in a row without candidates end the loop right after the
\* 5th, with no further fetch; the session then returns with one shortfall
\* notice and the whole store delivered when the store is non-empty, and
\* throws the no-results error when it is empty.
C7_EmptyPageExit ==
    emptyStreak >= 5 =>
        /\ emptyStreak = 5
        /\ Len(gotoLog) = Len(extractLog)
        /\ pc \notin {"pageDelay", "while", "goto"}
        /\ pc = "done" =>
              IF Len(uniqueEstabelecimentos) = 0
                THEN outcome = "thrown" /\ error = "NoResults" /\ leads = <<>>
                ELSE /\ outcome = "returned"
                     /\ ShortfallNotices = 1
                     /\ Len(leads) = Len(uniqueEstabelecimentos)

C7_Witness ==
    /\ pc = "done"
    /\ emptyStreak = 5
    /\ Len(uniqueEstabelecimentos) > 0
    /\ currentPageNum < maxPages

\* C8: a session whose store is empty has not called onNewLead and has
\* emitted no 'Concluido!' / percent 100 progress event, it ends thrown, and
\* when the pagination loop has ended with the store empty the error is the
\* no-results error.
C8_NoResultsError ==
    Len(uniqueEstabelecimentos) = 0 =>
        /\ leads = <<>>
        /\ \A k \in 1..Len(progressLog) :
              progressLog[k].percent # 100 /\ progressLog[k].status # "Concluido!"
        /\ pc = "done" => outcome = "thrown"
        /\ (LoopEnded /\ pc \in {"finally", "done"}) => error = "NoResults"

C8_Witness ==
    /\ pc = "done"
    /\ saveCookiesCalls > 0
    /\ Len(uniqueEstabelecimentos) = 0
    /\ Len(gotoLog) >= 2

\* C9: when the page.goto of the k-th search page has thrown, the session
\* fails with that error, exactly k fetches were issued with no offset
\* fetched twice, the failed page is not extracted, no record is delivered
\* and saveCookies is not called.
C9_FetchErrorNotRetried ==
    failedFetch # 0 =>
        /\ error = "FetchError"
        /\ Len(gotoLog) = failedFetch
        /\ OffsetsDistinct
        /\ Len(extractLog) = failedFetch - 1
        /\ leads = <<>>
        /\ saveCookiesCalls = 0 /\ ~cookiesWritten
        /\ pc \in {"finally", "done"}
        /\ pc = "done" => outcome = "thrown"

C9_Witness ==
    /\ pc = "done"
    /\ failedFetch = 2
    /\ Len(uniqueEstabelecimentos) > 0

\* C10: a session failing with the block error has not called onNewLead,
\* whatever the store holds.
C10_NoPartialResultsOnBlock ==
    error = "RECAPTCHA" => leads = <<>>

C10_Witness ==
    /\ pc = "done"
    /\ outcome = "thrown"
    /\ error = "RECAPTCHA"
    /\ Len(uniqueEstabelecimentos) >= 2

------------------------------------------------------------------------------
\* C11: on successful completion onNewLead has been called exactly
\* min(store size, quantidade) times, call k carrying index k and the k-th
\* record of the store in insertion order, and no two delivered records
\* have the same (nome, telefone); before completion the calls made so far
\* are a prefix of that list.
C11_FinalResultSet ==
    /\ Len(leads) <= Min(Len(uniqueEstabelecimentos), quantidade)
    /\ \A k \in 1..Len(leads) :
          /\ leads[k].index = k
          /\ leads[k].nome = uniqueEstabelecimentos[k].value.nome
          /\ leads[k].telefone = uniqueEstabelecimentos[k].value.telefone
    /\ \A j, k \in 1..Len(leads) :
          j # k => <<leads[j].nome, leads[j].telefone>>
                     # <<leads[k].nome, leads[k].telefone>>
    /\ outcome = "returned" =>
          Len(leads) = Min(Len(uniqueEstabelecimentos), quantidade)

\* a returned session that delivered two records of the same name out of a
\* store of three
C11_Witness ==
    /\ outcome = "returned"
    /\ Len(leads) = 2
    /\ Len(uniqueEstabelecimentos) = 3
    /\ leads[1].nome = leads[2].nome

\* C12: in every reachable state no two entries of the store have the same
\* (nome, raw telefone) pair, and every entry is stored under the key
\* nome + "|" + telefone of its own record.
C12_KeyInvariant ==
    /\ \A j, k \in 1..Len(uniqueEstabelecimentos) :
          j # k => <<uniqueEstabelecimentos[j].value.nome,
                     uniqueEstabelecimentos[j].value.telefone>>
                     # <<uniqueEstabelecimentos[k].value.nome,
                         uniqueEstabelecimentos[k].value.telefone>>
    /\ \A k \in 1..Len(uniqueEstabelecimentos) :
          uniqueEstabelecimentos[k].key =
              uniqueEstabelecimentos[k].value.nome \o "|"
                  \o uniqueEstabelecimentos[k].value.telefone

\* a store of three entries, two of one name and two of one telefone
C12_Witness ==
    /\ Len(uniqueEstabelecimentos) = 3
    /\ \E j, k \in 1..3 :
          /\ j # k
          /\ uniqueEstabelecimentos[j].value.nome = uniqueEstabelecimentos[k].value.nome
    /\ \E j, k \in 1..3 :
          /\ j # k
          /\ uniqueEstabelecimentos[j].value.telefone
                 = uniqueEstabelecimentos[k].value.telefone

\* C13: no step of a session makes the store smaller, or removes or replaces
\* an entry it holds: the store before a step is a prefix of the store after.
C13_Monotonicity ==
    [][/\ Len(uniqueEstabelecimentos') >= Len(uniqueEstabelecimentos)
       /\ \A k \in 1..Len(uniqueEstabelecimentos) :
             uniqueEstabelecimentos'[k] = uniqueEstabelecimentos[k]]_vars

\* a page of candidates, all held already, was merged into a store of two
\* or more entries that earlier pages had built
C13_Witness ==
    /\ Len(uniqueEstabelecimentos) >= 2
    /\ Len(extractLog) >= 3
    /\ stagnantStreak >= 1
    /\ emptyStreak = 0

\* C14: while a candidate list is merged a second time the Map stays as the
\* first merge left it, entry for entry, and novosAdicionados stays 0.
C14_DedupIdempotence ==
    [][mPass = 2 => (mStore' = mStore /\ mNovos' = 0)]_vars

\* a page of two candidates, of which the first merge added one, has been
\* merged twice
C14_Witness ==
    /\ mStep = "done"
    /\ Len(mPage) = 2
    /\ Len(mStore) = 3
    /\ mNovos = 0

\* C15: the forEach callback on a candidate whose key the Map holds leaves
\* the Map as it is: same entries, same size, same order.
C15_FirstSeenWins ==
    [][(mStep = "merge" /\ mRest # <<>> /\ MapHas(mStore, Key(Head(mRest))))
          => mStore' = mStore]_vars

\* the second candidate of a page is about to be visited, and the Map of two
\* entries holds it as its first entry
C15_Witness ==
    /\ mStep = "merge"
    /\ mPass = 1
    /\ Len(mRest) = 1
    /\ Len(mPage) = 2
    /\ Len(mStore) = 2
    /\ mStore[1].value = mRest[1]

\* two cards of the page being merged that the extraction accepts, of one
\* name, whose raw phone texts differ but have the same digits
SameNumberTwoFormats(a, b) ==
    /\ a.nome = b.nome
    /\ a.telefone # b.telefone
    /\ a.telefone # null
    /\ b.telefone # null
    /\ Digits(a.telefone) = Digits(b.telefone)
    /\ ExtractPage(<<a>>) # <<>>
    /\ ExtractPage(<<b>>) # <<>>

\* C16: once a page is merged, two of its candidates of the same name whose
\* raw phone texts differ only in formatting are both held, as two entries.
C16_NoPhoneCanonicalization ==
    mStep \in {"merge", "done"} /\ (mRest = <<>> \/ mPass = 2) =>
        \A j, k \in 1..Len(mCards) :
            SameNumberTwoFormats(mCards[j], mCards[k]) =>
                \E a, b \in 1..Len(mStore) :
                    /\ a # b
                    /\ mStore[a].value = [nome |-> mCards[j].nome,
                                          telefone |-> mCards[j].telefone]
                    /\ mStore[b].value = [nome |-> mCards[k].nome,
                                          telefone |-> mCards[k].telefone]

\* a page with both formats of one number was merged into a Map that held
\* neither, and both were added
C16_Witness ==
    /\ mStep = "merge"
    /\ mPass = 1
    /\ mRest = <<>>
    /\ mNovos = 2
    /\ Len(mCards) = 2
    /\ SameNumberTwoFormats(mCards[1], mCards[2])

\* C17: at most one shortfall notice is ever emitted; when the store is
\* smaller than quantidade the notice is there before the first onNewLead
\* call and at the successful return; when the store has reached quantidade
\* there is none.
C17_ShortfallNotice ==
    /\ ShortfallNotices <= 1
    /\ (Len(leads) > 0 /\ Len(uniqueEstabelecimentos) < quantidade)
          => ShortfallNotices = 1
    /\ (outcome = "returned" /\ Len(uniqueEstabelecimentos) < quantidade)
          => ShortfallNotices = 1
    /\ Len(uniqueEstabelecimentos) >= quantidade => ShortfallNotices = 0

\* a returned session that delivered its two records, one short of the
\* three requested, after the notice
C17_Witness ==
    /\ outcome = "returned"
    /\ quantidade = 3
    /\ Len(leads) = 2
    /\ ShortfallNotices = 1

\* C18: once the page index has reached maxPages with a non-empty store
\* smaller than quantidade, no error arises; the delivery is preceded by the
\* shortfall notice and the session ends by returning, every record of the
\* store delivered.
C18_PageLimitNotAnError ==
    (/\ currentPageNum >= maxPages
     /\ Len(uniqueEstabelecimentos) > 0
     /\ Len(uniqueEstabelecimentos) < quantidade)
    => /\ error = "none"
       /\ pc \in {"pageDelay", "while", "save", "notice", "send", "finally", "done"}
       /\ pc \in {"send", "finally", "done"} => ShortfallNotices = 1
       /\ pc \in {"finally", "done"} => Len(leads) = Len(uniqueEstabelecimentos)
       /\ pc = "done" => outcome = "returned"

\* a session of two or more pages that ran into the page limit with a store
\* short of the requested count, and has returned
C18_Witness ==
    /\ pc = "done"
    /\ maxPages >= 2
    /\ currentPageNum = maxPages
    /\ Len(uniqueEstabelecimentos) > 0
    /\ Len(uniqueEstabelecimentos) < quantidade
    /\ outcome = "returned"
    /\ Len(leads) = Len(uniqueEstabelecimentos)

\* C19: no error ever comes from loading the cookies; when the set-up finds
\* no cookie file, a file it cannot read or parse, or cookies the page
\* refuses, loadCookies gives false and the set-up goes on to the opening of
\* the session in the same way in the three cases: empty store, page index
\* 0, the second progress event, no error.
C19_BestEffortIdentityLoad ==
    [][/\ error' # "CookieError"
       /\ (pc = "setup" /\ cookieFile' \in {"missing", "corrupt", "rejected"})
            => /\ cookiesLoaded' = FALSE
               /\ pc' = "session"
               /\ error' = "none"
               /\ uniqueEstabelecimentos' = <<>>
               /\ currentPageNum' = 0
               /\ paginasVaziasSeguidas' = 0
               /\ sessionGotos' = sessionGotos + 1
               /\ progressLog' = Append(progressLog,
                      Progress("Configurado! Iniciando busca...", 10))]_vars

\* a session that found an unparsable cookie file, went through two pages
\* and returned with a record delivered
C19_Witness ==
    /\ cookieFile = "corrupt"
    /\ cookiesLoaded = FALSE
    /\ outcome = "returned"
    /\ Len(gotoLog) >= 2
    /\ Len(leads) >= 1

\* C20: an inter-page delay is taken exactly when another page fetch
\* follows: once the pagination loop has ended, every fetched page but the
\* last was followed by a delay, and the last was not.
C20_DelayOnlyWhenContinuing ==
    LoopEnded =>
        pageDelays = (IF gotoLog = <<>> THEN 0 ELSE Len(gotoLog) - 1)

\* the range the documentation gives for the first pages of a session
CautiousRange == [min |-> 3000, max |-> 5000]

\* C21: the range the inter-page wait is drawn from depends on the number
\* of successful pages: with fewer than 2 it is the cautious range
\* 3000-5000 ms, with 2 or more it is lower, and neither bound ever grows
\* with the number of successful pages.
C21_AdaptiveDelayTiers ==
    (pc = "pageDelay" /\ paginasVaziasSeguidas < 2) =>
        LET r == PageDelayRange(successfulPages, paginasVaziasSeguidas)
        IN  /\ pageDelay \in r.min..r.max
            /\ successfulPages < 2 => r = CautiousRange
            /\ successfulPages >= 2 =>
                  (r.min <= CautiousRange.min /\ r.max < CautiousRange.max)
            /\ \A a, b \in 0..MaxMaxPages :
                  a <= b =>
                    /\ PageDelayRange(b, paginasVaziasSeguidas).min
                          <= PageDelayRange(a, paginasVaziasSeguidas).min
                    /\ PageDelayRange(b, paginasVaziasSeguidas).max
                          <= PageDelayRange(a, paginasVaziasSeguidas).max

\* C22: when the inter-page wait is drawn with 2 or more empty pages in a
\* row, both bounds of its range are strictly larger than the bounds used
\* with the same number of successful pages and fewer than 2 empty pages in
\* a row.
C22_EmptyPagePenalty ==
    (pc = "pageDelay" /\ paginasVaziasSeguidas >= 2) =>
        \A e \in 0..1 :
            /\ PageDelayRange(successfulPages, paginasVaziasSeguidas).min
                  > PageDelayRange(successfulPages, e).min
            /\ PageDelayRange(successfulPages, paginasVaziasSeguidas).max
                  > PageDelayRange(successfulPages, e).max

\* C23: the inter-page wait lies within [MIN_PAGE_DELAY, MAX_PAGE_DELAY].
C23_WaitWithinConfiguredBounds ==
    pc = "pageDelay" => waited \in MinPageDelay..MaxPageDelay

\* C24: once the caller has requested cancellation no further search page
\* fetch is started and the identity is not saved.
C24_CooperativeCancellation ==
    [][cancelRequested =>
          (gotoLog' = gotoLog /\ saveCookiesCalls' = saveCookiesCalls)]_vars

\* C24 as amended: a cancellation request is not looked at; also after it
\* the pagination loop ends only with the store at quantidade, the page
\* index at maxPages or 5 empty pages in a row, and a session that returns
\* has saved the identity.
C24_NoCancellationCheck ==
    cancelRequested =>
        /\ (LoopEnded => \/ TargetReached
                         \/ currentPageNum >= maxPages
                         \/ paginasVaziasSeguidas >= EmptyLimit)
        /\ (outcome = "returned" => saveCookiesCalls = 1)

\* a session that started a page fetch after the caller's request, saved
\* the identity and returned
C24_Witness ==
    /\ cancelRequested
    /\ fetchedAfterCancel
    /\ cookiesWritten
    /\ outcome = "returned"

\* the session is inside an iteration of the pagination loop, between the
\* fetch of a page and the end of its merge
InIteration == pc \in {"goto", "detect", "screenshot", "human", "extract"}

PageEvents ==
    Cardinality({k \in 1..Len(progressLog) :
                    progressLog[k].status = "Buscando pagina"})

\* C26: onProgress has been called exactly once for each search page
\* fetched and, until the loop has ended, for nothing else but the two
\* events that precede the loop; onNewLead is not called before the loop
\* has ended, and no page is fetched after that.
C26_EmitterDiscipline ==
    /\ PageEvents = Len(gotoLog)
    /\ (InIteration \/ pc \in {"session", "while", "pageDelay"}) =>
          Len(progressLog) = 2 + Len(gotoLog)
    /\ leads # <<>> => LoopEnded
    /\ LoopEnded => pc \in {"save", "notice", "send", "finally", "done"}

\* three pages were fetched, with three page events, before two records
\* were delivered
C26_Witness ==
    /\ Len(gotoLog) = 3
    /\ PageEvents = 3
    /\ Len(leads) = 2

\* C27: at most one page is in hand at any time: a page fetch starts only
\* at the loop test, when every page fetched before has been through its
\* extraction and merge and its inter-page wait has elapsed.
C27_StrictlySequential ==
    [][/\ Len(gotoLog') - Len(extractLog') \in {0, 1}
       /\ Len(gotoLog') > Len(gotoLog) =>
             /\ Len(gotoLog') = Len(gotoLog) + 1
             /\ pc = "while"
             /\ Len(extractLog) = Len(gotoLog)
             /\ pageDelays = Len(gotoLog)
             /\ waited = 0]_vars

\* the third page is being fetched, the two before it merged and waited for
C27_Witness ==
    /\ pc = "goto"
    /\ Len(gotoLog) = 3
    /\ Len(extractLog) = 2
    /\ pageDelays = 2
    /\ waited = 0

\* C28: paginasVaziasSeguidas is the number of fetched pages in a row,
\* up to the latest, that yielded no candidate (0 after a page with a
\* candidate), and lies in 0..5.
C28_EmptyPageCounter ==
    /\ paginasVaziasSeguidas = emptyStreak
    /\ paginasVaziasSeguidas >= 0
    /\ paginasVaziasSeguidas <= EmptyLimit

\* three empty pages, then a page whose candidate reset the counter
C28_Witness ==
    /\ Len(extractLog) = 4
    /\ Len(uniqueEstabelecimentos) = 1
    /\ successfulPages = 1
    /\ stagnantStreak = 0
    /\ paginasVaziasSeguidas = 0

\* the extraction of the page has just returned
Extracted == mStep = "merge" /\ mPass = 1 /\ mRest = mPage

\* C29: every candidate the extraction returns, and every record of the
\* Map once the candidates are merged, has a name of more than 3 and fewer
\* than 150 characters that is not a noise phrase.
C29_LabelValidity ==
    /\ Extracted =>
          \A k \in 1..Len(mPage) :
              /\ Len(mPage[k].nome) > 3
              /\ Len(mPage[k].nome) < 150
              /\ ~IsNoise(mPage[k].nome)
    /\ mStep = "done" =>
          \A k \in 1..Len(mStore) :
              /\ Len(mStore[k].value.nome) > 3
              /\ Len(mStore[k].value.nome) < 150
              /\ ~IsNoise(mStore[k].value.nome)

\* C29 as amended: every candidate the extraction returns, and every record
\* of the Map once the candidates are merged, has a name of 3 to 150
\* characters, both included, that is not a noise phrase; a card with a
\* phone whose name has exactly 3 or exactly 150 characters and is no noise
\* phrase is returned.
C29_LabelValidityInclusive ==
    /\ Extracted =>
          /\ \A k \in 1..Len(mPage) :
                /\ Len(mPage[k].nome) >= 3
                /\ Len(mPage[k].nome) <= 150
                /\ ~IsNoise(mPage[k].nome)
          /\ \A j \in 1..Len(mCards) :
                (/\ Len(mCards[j].nome) \in {3, 150}
                 /\ mCards[j].telefone # null
                 /\ ~IsNoise(mCards[j].nome))
                => \E k \in 1..Len(mPage) : mPage[k].nome = mCards[j].nome
    /\ mStep = "done" =>
          \A k \in 1..Len(mStore) :
              /\ Len(mStore[k].value.nome) >= 3
              /\ Len(mStore[k].value.nome) <= 150
              /\ ~IsNoise(mStore[k].value.nome)

\* a page whose two cards have names of 3 and of 150 characters was
\* extracted and merged, both records added
C29_Witness ==
    /\ mStep = "merge"
    /\ mPass = 1
    /\ mRest = <<>>
    /\ mNovos = 2
    /\ Len(mPage) = 2
    /\ Len(mPage[1].nome) = 3
    /\ Len(mPage[2].nome) = 150

\* the card passes the filters of lines 352-377
Accepted(card) ==
    /\ card.telefone # null
    /\ ~NomeRejected(card.nome)
    /\ ~IsNoise(card.nome)

\* the places in the page being merged of the first card of each accepted
\* (nome, telefone)
FirstOccurrences ==
    {j \in 1..Len(mCards) :
        /\ \A h \in 1..(j - 1) :
              <<mCards[h].nome, mCards[h].telefone>>
                  # <<mCards[j].nome, mCards[j].telefone>>
        /\ Accepted(mCards[j])}

\* the k-th of the places S, in document order
Kth(S, k) == CHOOSE j \in S : Cardinality({h \in S : h < j}) = k - 1

\* C30: the list extracted from a page has no two entries of the same
\* (nome, telefone), has one entry for each accepted card that is the first
\* of its (nome, telefone) on the page, and lists them in document order.
C30_WithinPageCollapse ==
    Extracted =>
        LET firsts == FirstOccurrences
        IN  /\ \A a, b \in 1..Len(mPage) :
                  a # b => <<mPage[a].nome, mPage[a].telefone>>
                             # <<mPage[b].nome, mPage[b].telefone>>
            /\ Len(mPage) = Cardinality(firsts)
            /\ \A k \in 1..Len(mPage) :
                  /\ mPage[k].nome = mCards[Kth(firsts, k)].nome
                  /\ mPage[k].telefone = mCards[Kth(firsts, k)].telefone

\* a page that shows the same accepted card twice gave one candidate
C30_Witness ==
    /\ mStep = "merge"
    /\ Len(mCards) = 2
    /\ mCards[1] = mCards[2]
    /\ Len(mPage) = 1

\* the card's label passes the length bound and the noise filter
ValidLabel(card) == ~NomeRejected(card.nome) /\ ~IsNoise(card.nome)

\* the matchers that have a match in the text
Matching(text) ==
    {k \in 1..Len(PhonePatterns) : Len(Match(text, PhonePatterns[k])) > 0}

\* the first of the matchers that have a match in the text
FirstMatching(text) ==
    CHOOSE a \in Matching(text) : \A b \in Matching(text) : a <= b

\* the text small is a part of the text big
Contains(big, small) ==
    \E p \in 1..(Len(big) - Len(small) + 1) :
        SubSeq(big, p, p + Len(small) - 1) = small

\* on this text matcher a is more specific than matcher b: what b matches is
\* only a part of what a matches
MoreSpecificOn(text, a, b) ==
    LET ma == Match(text, PhonePatterns[a])
        mb == Match(text, PhonePatterns[b])
    IN  /\ Len(ma) > 0
        /\ Len(mb) > 0
        /\ Len(ma[1]) > Len(mb[1])
        /\ Contains(ma[1], mb[1])

\* every record of the page is the label of a card with a valid label and
\* the first match of the first matcher that has one in the card's text,
\* and every such card has its record
FirstMatcherDecides ==
    /\ \A r \in 1..Len(mPage) :
          \E j \in 1..Len(mCards) :
              /\ ValidLabel(mCards[j])
              /\ Matching(mCards[j].text) # {}
              /\ mPage[r].nome = mCards[j].nome
              /\ mPage[r].telefone
                     = Match(mCards[j].text,
                             PhonePatterns[FirstMatching(mCards[j].text)])[1]
    /\ \A j \in 1..Len(mCards) :
          (ValidLabel(mCards[j]) /\ Matching(mCards[j].text) # {}) =>
              \E r \in 1..Len(mPage) :
                  /\ mPage[r].nome = mCards[j].nome
                  /\ mPage[r].telefone
                         = Match(mCards[j].text,
                                 PhonePatterns[FirstMatching(mCards[j].text)])[1]

\* C31: the phone matchers are tried in a fixed order from the most
\* specific to the least specific: the phone of a record is the first match
\* of the first matcher that has a match in the card's text, no matcher
\* tried after it is more specific on that text, and a card with a valid
\* label and no match of any matcher gives no record.
C31_PhoneMatcherPrecedence ==
    Extracted =>
        /\ FirstMatcherDecides
        /\ \A j \in 1..Len(mCards) :
              (ValidLabel(mCards[j]) /\ Matching(mCards[j].text) # {}) =>
                  \A k \in Matching(mCards[j].text) :
                      ~MoreSpecificOn(mCards[j].text, k,
                                      FirstMatching(mCards[j].text))

\* the session has navigated: to google.com.br or to a search page
Navigated == sessionGotos > 0 \/ Len(gotoLog) > 0

\* loadCookies was called before any navigation and never twice; saveCookies
\* is called at most once and, once it has been called, the session is past
\* the pagination loop for good, so that no search page is fetched after it
LoadBeforeSaveAfter ==
    /\ loadCookiesCalls <= 1
    /\ Navigated => loadCookiesCalls = 1
    /\ saveCookiesCalls <= 1
    /\ saveCookiesCalls = 1 => pc \in {"notice", "send", "finally", "done"}

\* C32: in every session loadCookies is invoked exactly once and before any
\* page navigation, and saveCookies is invoked at most once and only after
\* the last search-page fetch of the session.
C32_IdentityLoadSaveOrdering ==
    /\ LoadBeforeSaveAfter
    /\ outcome # "running" => loadCookiesCalls = 1

\* C32 as the code has it: loadCookies is invoked at most once, always
\* before any page navigation, and exactly once in every session that
\* navigates; a session that ends without having called it failed at the
\* launch or in the set-up and made no navigation; saveCookies is invoked at
\* most once and only after the last search-page fetch.
C32_LoadOnceIfPageOpened ==
    /\ LoadBeforeSaveAfter
    /\ (outcome # "running" /\ loadCookiesCalls = 0)
         => /\ error \in {"LaunchError", "DriverError"}
            /\ ~Navigated
            /\ saveCookiesCalls = 0

\* a session that loaded the cookies once, fetched three search pages,
\* saved the cookies once and returned
C32_Witness ==
    /\ outcome = "returned"
    /\ loadCookiesCalls = 1
    /\ saveCookiesCalls = 1
    /\ Len(gotoLog) = 3

\* C33: the navigation to https://www.google.com.br that opens the session
\* is made only when loadCookies loaded no persisted identity; when it
\* loaded one, the first navigation of the session is the first search
\* page.
C33_WarmUpSkippedForReturning ==
    /\ cookiesLoaded => sessionGotos = 0
    /\ (~cookiesLoaded /\ Len(gotoLog) > 0) => sessionGotos = 1

\* C34: the detector fails open.  When page.evaluate throws inside
\* detectRecaptcha on the page of the current iteration, the detection gave
\* false: no block error is raised and no screenshot taken, the iteration
\* goes on to the extraction, and once the iteration is over that page has
\* been extracted and merged; the session ends in this iteration only by
\* the extraction itself throwing.
C34_DetectorFailsOpen ==
    evaluateThrew =>
        /\ hasRecaptcha = FALSE
        /\ screenshots = 0
        /\ pc \in {"human", "extract", "pageDelay", "save", "finally", "done"}
        /\ pc \in {"human", "extract", "pageDelay", "save"} => error = "none"
        /\ pc \in {"finally", "done"} => error = "EvaluateError"
        /\ pc \in {"pageDelay", "save"}
             => /\ Len(extractLog) = Len(gotoLog)
                /\ extractLog[Len(extractLog)] = gotoLog[Len(gotoLog)]

\* the detection threw on the second page of a session, and that page was
\* extracted and its candidates merged into the store
C34_Witness ==
    /\ evaluateThrew
    /\ pc = "pageDelay"
    /\ Len(gotoLog) = 2
    /\ Len(extractLog) = 2
    /\ successfulPages = 2

C36_ScreenshotFailureNotMasking ==
    screenshotThrew =>
        /\ error = "RECAPTCHA"
        /\ hasRecaptcha
        /\ screenshots = 1
        /\ pc \in {"finally", "done"}
        /\ pc = "done" => outcome = "thrown"
        /\ Len(gotoLog) = blockedPage
        /\ saveCookiesCalls = 0
        /\ ~cookiesWritten
        /\ leads = <<>>

\* a session blocked on its third page whose screenshot threw has ended by
\* throwing the block error, with two records in the store
C36_Witness ==
    /\ screenshotThrew
    /\ pc = "done"
    /\ outcome = "thrown"
    /\ error = "RECAPTCHA"
    /\ Len(gotoLog) = 3
    /\ Len(uniqueEstabelecimentos) = 2

\* saveCookies was called and could not read or write the cookies
SaveFailed == saveCookiesCalls = 1 /\ ~cookiesWritten

\* C37: a failure while saving the identity is absorbed.  After saveCookies
\* has failed the only error the session can be in is the no-results error,
\* raised exactly when the store is empty as it is after a successful save;
\* with a non-empty store the session goes on to the delivery, and when it
\* is over it has returned, having delivered the first min(size, quantidade)
\* records of the store through onNewLead and reported percent 100.
C37_SaveFailureAbsorbed ==
    SaveFailed =>
        /\ pc \in {"notice", "send", "finally", "done"}
        /\ error = (IF Len(uniqueEstabelecimentos) = 0 THEN "NoResults" ELSE "none")
        /\ (pc = "done" /\ Len(uniqueEstabelecimentos) > 0) =>
              /\ outcome = "returned"
              /\ Len(leads) = Limit
              /\ \A k \in 1..Len(leads) : leads[k] = Lead(Unique[k], k - 1)
              /\ progressLog[Len(progressLog)].percent = 100

\* a session whose saveCookies failed has returned after delivering two
\* records
C37_Witness ==
    /\ SaveFailed
    /\ pc = "done"
    /\ outcome = "returned"
    /\ Len(leads) = 2

\* C38: progress is monotone.  The percent values passed to onProgress in a
\* session never decrease and lie within 0..100, and percent 100 is passed
\* only in the last progress event, by a session that raised no error and
\* has delivered all its records, the first min(size, quantidade) of the
\* store.
C38_ProgressMonotone ==
    /\ \A k \in 1..Len(progressLog) : progressLog[k].percent \in 0..100
    /\ \A k \in 1..(Len(progressLog) - 1) :
          progressLog[k].percent <= progressLog[k + 1].percent
    /\ \A k \in 1..Len(progressLog) :
          progressLog[k].percent = 100 =>
              /\ k = Len(progressLog)
              /\ error = "none"
              /\ Len(leads) = Limit
              /\ \A j \in 1..Len(leads) : leads[j] = Lead(Unique[j], j - 1)

\* a session that fetched three pages, gave the shortfall notice, delivered
\* two records and reported percent 100
C38_Witness ==
    /\ pc = "done"
    /\ outcome = "returned"
    /\ Len(gotoLog) = 3
    /\ ShortfallNotices = 1
    /\ Len(leads) = 2
    /\ progressLog[Len(progressLog)].percent = 100

\* C39: every session terminates.  An iteration of the pagination loop that
\* does not leave the loop has raised the page index by one, towards
\* CONFIG.maxPages, and when every call of the page driver and every timed
\* delay eventually returns or throws, extractLeadsRealtime eventually
\* returns or throws.
C39_EverySessionTerminates ==
    /\ [][(pc = "extract" /\ pc' = "pageDelay")
             => /\ currentPageNum' = currentPageNum + 1
                /\ currentPageNum' <= maxPages]_vars
    /\ <>(outcome # "running")

\* a session that went through five pages without reaching its target has
\* returned
C39_Witness ==
    /\ outcome = "returned"
    /\ pc = "done"
    /\ Len(gotoLog) = 5
    /\ currentPageNum = maxPages
    /\ Len(uniqueEstabelecimentos) < quantidade

==============================================================================
